---------------------------- MODULE Spec2Model ----------------------------
(***************************************************************************)
(* Model of excel_to_md.py: the redaction pipeline, the question detector, *)
(* the row segmenter, the answer formatter, the sheet processor and the    *)
(* main loop over the sheets of a workbook.                                *)
(*                                                                         *)
(* Text is a sequence of one-character strings.  A regular expression is   *)
(* modelled by the backtracking search re performs: every stage maps a     *)
(* sequence of candidate positions (most preferred first) to the sequence  *)
(* of positions reachable through that stage, so the head of the final     *)
(* sequence is the end of the match re reports.                            *)
(***************************************************************************)
EXTENDS Integers, Sequences, FiniteSets, TLC

VARIABLES
    \* main program and process_sheet
    workbook,     \* all_sheets: sequence of [name, rows]
    sheet_idx,    \* position of the for loop over all_sheets.items()
    row_idx,      \* position of the for loop over df.iterrows()
    current_q,    \* process_sheet local: <<>> is None, <<q>> is a question
    current_a,    \* process_sheet local: the answer accumulator
    markdown,     \* process_sheet local: blocks of the current sheet
    output,       \* blocks written to the output file so far
    pc,           \* "main", "sheet" or "done"
    \* format_answer
    answer_data,  \* the argument
    i,            \* the cursor
    formatted,    \* the list of formatted entries
    fpc,          \* "loop" or "done"
    \* process_row
    row_in,       \* the argument
    row_out,      \* <<>> before the call, <<[q, a]>> after it
    \* anonymize_financial_info
    rtext,        \* the text
    rpass         \* number of full pipeline passes applied to rtext

vars == <<workbook, sheet_idx, row_idx, current_q, current_a, markdown, output,
          pc, answer_data, i, formatted, fpc, row_in, row_out, rtext, rpass>>

mainVars   == <<workbook, sheet_idx, row_idx, current_q, current_a, markdown, output, pc>>
formatVars == <<answer_data, i, formatted, fpc>>
rowVars    == <<row_in, row_out>>
redactVars == <<rtext, rpass>>

---------------------------------------------------------------------------
(* Characters *)

Digit == {"0", "1", "2", "3", "4", "5", "6", "7", "8", "9"}

LowerSeq == <<"a", "b", "c", "d", "e", "f", "g", "h", "i", "j", "k", "l", "m",
              "n", "o", "p", "q", "r", "s", "t", "u", "v", "w", "x", "y", "z">>

UpperSeq == <<"A", "B", "C", "D", "E", "F", "G", "H", "I", "J", "K", "L", "M",
              "N", "O", "P", "Q", "R", "S", "T", "U", "V", "W", "X", "Y", "Z">>

LowerSet == {"a", "b", "c", "d", "e", "f", "g", "h", "i", "j", "k", "l", "m",
             "n", "o", "p", "q", "r", "s", "t", "u", "v", "w", "x", "y", "z"}

UpperSet == {"A", "B", "C", "D", "E", "F", "G", "H", "I", "J", "K", "L", "M",
             "N", "O", "P", "Q", "R", "S", "T", "U", "V", "W", "X", "Y", "Z"}

Letter == LowerSet \cup UpperSet

\* \w
WordChar == Letter \cup Digit \cup {"_"}

\* \s, and the characters str.strip() removes
Space == {" ", "\t", "\n"}

\* str.lower() on one character
LowerCh(c) == IF c \in UpperSet THEN LowerSeq[CHOOSE k \in 1..26 : UpperSeq[k] = c] ELSE c

\* str.lower()
Lower(s) == [k \in 1..Len(s) |-> LowerCh(s[k])]

RECURSIVE LStrip(_)
LStrip(s) == IF s # <<>> /\ Head(s) \in Space THEN LStrip(Tail(s)) ELSE s

RECURSIVE RStrip(_)
RStrip(s) == IF s # <<>> /\ s[Len(s)] \in Space THEN RStrip(SubSeq(s, 1, Len(s) - 1)) ELSE s

\* str.strip()
Strip(s) == RStrip(LStrip(s))

---------------------------------------------------------------------------
(* Regular expression stages.  A position p means "p characters consumed". *)

FlatMap(F(_), ps) ==
    LET f[k \in 0..Len(ps)] == IF k = 0 THEN <<>> ELSE f[k - 1] \o F(ps[k])
    IN  f[Len(ps)]

IsWordAt(s, k) == k >= 1 /\ k <= Len(s) /\ s[k] \in WordChar

\* \b holds at position p
AtBoundary(s, p) == IsWordAt(s, p) # IsWordAt(s, p + 1)

\* \b
Bnd(s, ps) == SelectSeq(ps, LAMBDA p : AtBoundary(s, p))

\* number of consecutive characters of class C after position p, at most n
RECURSIVE RunLen(_, _, _, _)
RunLen(s, p, C, n) ==
    IF n = 0 \/ p >= Len(s) \/ s[p + 1] \notin C THEN 0
    ELSE 1 + RunLen(s, p + 1, C, n - 1)

RECURSIVE Down(_, _, _)
Down(p, hi, lo) == IF hi < lo THEN <<>> ELSE <<p + hi>> \o Down(p, hi - 1, lo)

\* greedy C{m,n}: longest repetition first
Rep(s, ps, C, m, n) == FlatMap(LAMBDA p : Down(p, RunLen(s, p, C, n), m), ps)

\* greedy C{m,}
RepInf(s, ps, C, m) == Rep(s, ps, C, m, Len(s))

\* a literal word under re.IGNORECASE (w is lower case)
Lit(s, ps, w) ==
    FlatMap(LAMBDA p : IF p + Len(w) <= Len(s) /\ \A k \in 1..Len(w) : LowerCh(s[p + k]) = w[k]
                       THEN <<p + Len(w)>> ELSE <<>>, ps)

\* (?!c)
NotBefore(s, ps, c) == SelectSeq(ps, LAMBDA p : ~(p < Len(s) /\ s[p + 1] = c))

---------------------------------------------------------------------------
(* anonymize_financial_info: the patterns, in dictionary order *)

RedactedPrefix == <<"[", "R", "E", "D", "A", "C", "T", "E", "D", "_">>

Placeholder(k) ==
    RedactedPrefix \o
    CASE k = 1 -> <<"A", "C", "C", "O", "U", "N", "T", "]">>
      [] k = 2 -> <<"N", "U", "M", "B", "E", "R", "]">>
      [] k = 3 -> <<"P", "H", "O", "N", "E", "]">>
      [] k = 4 -> <<"E", "M", "A", "I", "L", "]">>
      [] k = 5 -> <<"A", "M", "O", "U", "N", "T", "]">>
      [] k = 6 -> <<"C", "A", "R", "D", "]">>
      [] k = 7 -> <<"R", "E", "F", "E", "R", "E", "N", "C", "E", "]">>
      [] k = 8 -> <<"R", "A", "T", "E", "]">>

DashSpace == {"-"} \cup Space

DashDotSpace == {"-", "."} \cup Space

\* \b\d{4}[-\s]?\d{4}[-\s]?\d{4}[-\s]?\d{4}\b
AccountPattern(s, p) ==
    LET g1 == Rep(s, Bnd(s, <<p>>), Digit, 4, 4)
        g2 == Rep(s, Rep(s, g1, DashSpace, 0, 1), Digit, 4, 4)
        g3 == Rep(s, Rep(s, g2, DashSpace, 0, 1), Digit, 4, 4)
        g4 == Rep(s, Rep(s, g3, DashSpace, 0, 1), Digit, 4, 4)
    IN  Bnd(s, g4)

\* \b\d{9,18}\b
NumberPattern(s, p) == Bnd(s, Rep(s, Bnd(s, <<p>>), Digit, 9, 18))

\* \b(?:\+?\d{1,3}[-\.\s]?)?\(?\d{3}\)?[-\.\s]?\d{3}[-\.\s]?\d{4}\b
PhonePattern(s, p) ==
    LET Country(q) == Rep(s, Rep(s, Rep(s, <<q>>, {"+"}, 0, 1), Digit, 1, 3), DashDotSpace, 0, 1)
        cc == FlatMap(LAMBDA q : Country(q) \o <<q>>, Bnd(s, <<p>>))
        g1 == Rep(s, Rep(s, Rep(s, cc, {"("}, 0, 1), Digit, 3, 3), {")"}, 0, 1)
        g2 == Rep(s, Rep(s, g1, DashDotSpace, 0, 1), Digit, 3, 3)
        g3 == Rep(s, Rep(s, g2, DashDotSpace, 0, 1), Digit, 4, 4)
    IN  Bnd(s, g3)

\* [A-Za-z0-9._%+-]
EmailLocal == Letter \cup Digit \cup {".", "_", "%", "+", "-"}

\* [A-Za-z0-9.-]
EmailDomain == Letter \cup Digit \cup {".", "-"}

\* [A-Z|a-z]
EmailTld == Letter \cup {"|"}

\* \b[A-Za-z0-9._%+-]+@[A-Za-z0-9.-]+\.[A-Z|a-z]{2,}\b
EmailPattern(s, p) ==
    LET g1 == Rep(s, RepInf(s, Bnd(s, <<p>>), EmailLocal, 1), {"@"}, 1, 1)
        g2 == Rep(s, RepInf(s, g1, EmailDomain, 1), {"."}, 1, 1)
    IN  Bnd(s, RepInf(s, g2, EmailTld, 2))

\* (?:,\d{3})* from position q
RECURSIVE Thousands(_, _)
Thousands(s, q) ==
    FlatMap(LAMBDA r : Thousands(s, r), Rep(s, Rep(s, <<q>>, {","}, 1, 1), Digit, 3, 3)) \o <<q>>

\* AmountPattern without the closing \b: \b\d{1,3}(?:,\d{3})*(?:\.\d{2})?(?!%)
AmountPatternOpenEnd(s, p) ==
    LET g1 == Rep(s, Bnd(s, <<p>>), Digit, 1, 3)
        g2 == FlatMap(LAMBDA q : Thousands(s, q), g1)
        g3 == FlatMap(LAMBDA q : Rep(s, Rep(s, <<q>>, {"."}, 1, 1), Digit, 2, 2) \o <<q>>, g2)
    IN  NotBefore(s, g3, "%")

\* \b\d{1,3}(?:,\d{3})*(?:\.\d{2})?\b(?!%)
AmountPattern(s, p) ==
    LET g1 == Rep(s, Bnd(s, <<p>>), Digit, 1, 3)
        g2 == FlatMap(LAMBDA q : Thousands(s, q), g1)
        g3 == FlatMap(LAMBDA q : Rep(s, Rep(s, <<q>>, {"."}, 1, 1), Digit, 2, 2) \o <<q>>, g2)
    IN  NotBefore(s, Bnd(s, g3), "%")

\* \b(?:visa|mastercard|amex)\b\s*\d{4}
CardPattern(s, p) ==
    LET b  == Bnd(s, <<p>>)
        kw == Lit(s, b, <<"v", "i", "s", "a">>)
              \o Lit(s, b, <<"m", "a", "s", "t", "e", "r", "c", "a", "r", "d">>)
              \o Lit(s, b, <<"a", "m", "e", "x">>)
    IN  Rep(s, RepInf(s, Bnd(s, kw), Space, 0), Digit, 4, 4)

\* \b[a-z]{2}\d{5,10}\b under re.IGNORECASE
ReferencePattern(s, p) == Bnd(s, Rep(s, Rep(s, Bnd(s, <<p>>), Letter, 2, 2), Digit, 5, 10))

\* \b\d+\.\d{2}%
RatePattern(s, p) ==
    Rep(s, Rep(s, Rep(s, RepInf(s, Bnd(s, <<p>>), Digit, 1), {"."}, 1, 1), Digit, 2, 2), {"%"}, 1, 1)

\* re.match of pattern k at position p: the ends of the match, preferred first
MatchAt(k, s, p) ==
    CASE k = 1 -> AccountPattern(s, p)
      [] k = 2 -> NumberPattern(s, p)
      [] k = 3 -> PhonePattern(s, p)
      [] k = 4 -> EmailPattern(s, p)
      [] k = 5 -> AmountPattern(s, p)
      [] k = 6 -> CardPattern(s, p)
      [] k = 7 -> ReferencePattern(s, p)
      [] k = 8 -> RatePattern(s, p)

\* re.sub(pattern k, placeholder k, s): leftmost matches, scanned from p
RECURSIVE ReSubFrom(_, _, _)
ReSubFrom(k, s, p) ==
    IF p >= Len(s) THEN <<>>
    ELSE LET m == MatchAt(k, s, p)
         IN  IF m # <<>> THEN Placeholder(k) \o ReSubFrom(k, s, m[1])
             ELSE <<s[p + 1]>> \o ReSubFrom(k, s, p + 1)

ReSub(k, s) == ReSubFrom(k, s, 0)

\* the for loop over patterns.items(), patterns k..7
RECURSIVE ApplyPatterns(_, _)
ApplyPatterns(k, s) == IF k > 7 THEN s ELSE ApplyPatterns(k + 1, ReSub(k, s))

anonymize_financial_info(text) == ReSub(8, ApplyPatterns(1, text))

---------------------------------------------------------------------------
(* Cells.  A cell is [t, s, n]: t = "nan" is a missing value, t = "str" a  *)
(* text s, t = "int" the integer n, t = "float" the float n / 100.         *)

NaNCell == [t |-> "nan", s |-> <<>>, n |-> 0]

StrCell(s) == [t |-> "str", s |-> s, n |-> 0]

IntCell(n) == [t |-> "int", s |-> <<>>, n |-> n]

FloatCell(n) == [t |-> "float", s |-> <<>>, n |-> n]

DigitSeq == <<"0", "1", "2", "3", "4", "5", "6", "7", "8", "9">>

RECURSIVE Digits(_)
Digits(n) == IF n < 10 THEN <<DigitSeq[n + 1]>> ELSE Digits(n \div 10) \o <<DigitSeq[(n % 10) + 1]>>

\* str() of the float n / 100
FloatStr(n) ==
    Digits(n \div 100) \o <<".">> \o
    (IF n % 10 = 0 THEN <<DigitSeq[((n % 100) \div 10) + 1]>>
     ELSE <<DigitSeq[((n % 100) \div 10) + 1], DigitSeq[(n % 10) + 1]>>)

\* str(cell)
CellStr(cell) ==
    CASE cell.t = "nan"   -> <<"n", "a", "n">>
      [] cell.t = "str"   -> cell.s
      [] cell.t = "int"   -> Digits(cell.n)
      [] cell.t = "float" -> FloatStr(cell.n)

\* pd.isnull(cell)
IsNull(cell) == cell.t = "nan"

---------------------------------------------------------------------------
(* is_question *)

QuestionStarts == {
    <<"w", "h", "a", "t">>,
    <<"h", "o", "w">>,
    <<"i", "s">>,
    <<"a", "r", "e">>,
    <<"d", "o">>,
    <<"d", "o", "e", "s">>,
    <<"c", "a", "n">>,
    <<"w", "h", "o">>,
    <<"w", "h", "e", "n">>,
    <<"w", "h", "e", "r", "e">>,
    <<"w", "h", "y">>,
    <<"s", "h", "a", "l", "l">>,
    <<"w", "i", "l", "l">>,
    <<"h", "a", "s">>,
    <<"h", "a", "v", "e">>}

QuestionWords == {
    <<"e", "x", "p", "l", "a", "i", "n">>,
    <<"d", "e", "s", "c", "r", "i", "b", "e">>,
    <<"t", "e", "l", "l", " ", "m", "e", " ", "a", "b", "o", "u", "t">>}

StartsWith(s, w) == Len(w) <= Len(s) /\ SubSeq(s, 1, Len(w)) = w

is_question(text) ==
    LET t == Strip(text)
        l == Lower(t)
    IN  IF t = <<>> \/ t = <<"n", "a", "n">> THEN FALSE
        ELSE \/ l[Len(l)] = "?"
             \/ Len(l) >= 2 /\ l[Len(l)] = "\n" /\ l[Len(l) - 1] = "?"
             \/ \E w \in QuestionStarts : StartsWith(l, w)
             \/ \E w \in QuestionWords : \E p \in 0..Len(l) : Bnd(l, Lit(l, Bnd(l, <<p>>), w)) # <<>>

---------------------------------------------------------------------------
(* process_row.  The result is [q, a]: q = <<>> is None, q = <<text>> a    *)
(* question; a is the list of cells after the question.                    *)

\* RowTail with the slice starting at the question cell: list(row[idx:])
RowTailFromQuestion(row, idx) == SubSeq(row, idx + 1, Len(row))

\* list(row[idx+1:])
RowTail(row, idx) == SubSeq(row, idx + 2, Len(row))

RECURSIVE process_row_from(_, _)
process_row_from(row, idx) ==
    IF idx >= Len(row) THEN [q |-> <<>>, a |-> <<>>]
    ELSE LET cell_str == Strip(CellStr(row[idx + 1]))
         IN  IF Lower(cell_str) = <<"m", "a", "i", "n">> THEN process_row_from(row, idx + 1)
             ELSE IF is_question(cell_str)
                  THEN [q |-> <<cell_str>>, a |-> RowTail(row, idx)]
                  ELSE process_row_from(row, idx + 1)

process_row(row) == process_row_from(row, 0)

\* the truth value of q in "if q:" and "if current_q:"
Truthy(q) == q # <<>> /\ q[1] # <<>>

---------------------------------------------------------------------------
(* format_answer *)

\* the filter of the row comprehensions
KeepCell(cell) ==
    /\ ~IsNull(cell)
    /\ Strip(CellStr(cell)) \notin {<<>>, <<"n", "a", "n">>, <<"M", "a", "i", "n">>}

\* f"{float(cell)*100:.2f}%" of the float n / 100
Percent(n) == Digits(n) \o <<".", "0", "0", "%">>

\* the expression of the row comprehensions
CleanCell(cell) ==
    IF cell.t = "float" /\ cell.n <= 100 THEN Percent(cell.n)
    ELSE anonymize_financial_info(Strip(CellStr(cell)))

\* the row comprehensions: row, next_row and current_row
CleanRow(cells) ==
    LET kept == SelectSeq(cells, KeepCell)
    IN  [k \in 1..Len(kept) |-> CleanCell(kept[k])]

Dashes == <<"-", "-", "-">>

\* one list item appended to formatted
ItemEntry(item) == [kind |-> "item", lines |-> <<<<item>>>>]

\* the table built from headers and rows
TableEntry(headers, rows) ==
    [kind |-> "table", lines |-> <<headers, [k \in 1..Len(headers) |-> Dashes]>> \o rows]

\* the inner while from cursor j: the cleaned rows that continue a table of n columns
RECURSIVE TableRows(_, _, _)
TableRows(ad, j, n) ==
    IF j >= Len(ad) THEN <<>>
    ELSE LET current_row == CleanRow(ad[j + 1])
         IN  IF Len(current_row) = n THEN <<current_row>> \o TableRows(ad, j + 1, n) ELSE <<>>

\* IsTableStart with the column test off by one: len(row) > 2
IsTableStartThree(ad, j, row) ==
    /\ j + 1 < Len(ad)
    /\ Len(row) > 2
    /\ Len(CleanRow(ad[j + 2])) = Len(row)

\* the table test on the cleaned row at cursor j: another row follows, the row
\* has >= 2 cells and the next row cleans to as many
IsTableStart(ad, j, row) ==
    /\ j + 1 < Len(ad)
    /\ Len(row) >= 2
    /\ Len(CleanRow(ad[j + 2])) = Len(row)

\* the locals of format_answer before the loop, with the cursor at j
FormatStart(j) == [kind |-> "start", i |-> j, formatted |-> <<>>]

\* "if not row": i += 1; continue
SkipStep(st) == [kind |-> "skip", i |-> st.i + 1, formatted |-> st.formatted]

\* TableStep with the inner while advancing the cursor before its break, so
\* that the row ending a table is passed over
TableStepSkipBreaker(st, headers, rows) ==
    [kind |-> "table", i |-> st.i + 2 + Len(rows),
     formatted |-> Append(st.formatted, TableEntry(headers, rows))]

\* the table branch: i += 2, one more per row of the inner while, and the
\* table appended to formatted
TableStep(st, headers, rows) ==
    [kind |-> "table", i |-> st.i + 1 + Len(rows),
     formatted |-> Append(st.formatted, TableEntry(headers, rows))]

\* the list branch: formatted.extend(...); i += 1
ListStep(st, row) ==
    [kind |-> "list", i |-> st.i + 1,
     formatted |-> st.formatted \o [k \in 1..Len(row) |-> ItemEntry(row[k])]]

\* the body of the outer while after row has been cleaned
RowStep(ad, st, row) ==
    IF row = <<>> THEN SkipStep(st)
    ELSE IF IsTableStart(ad, st.i, row)
    THEN TableStep(st, row, <<CleanRow(ad[st.i + 2])>> \o TableRows(ad, st.i + 2, Len(row)))
    ELSE ListStep(st, row)

\* one iteration of the outer while on the locals st = [i, formatted]: the
\* branch that runs and the locals after it
FormatStep(ad, st) == RowStep(ad, st, CleanRow(ad[st.i + 1]))

\* the outer while from the locals st
RECURSIVE FormatLoop(_, _)
FormatLoop(ad, st) == IF st.i >= Len(ad) THEN st.formatted ELSE FormatLoop(ad, FormatStep(ad, st))

\* the list formatted that the outer while builds from cursor j
FormatFrom(ad, j) == FormatLoop(ad, FormatStart(j))

\* sep.join(parts)
RECURSIVE Join(_, _)
Join(parts, sep) ==
    IF parts = <<>> THEN <<>>
    ELSE IF Len(parts) = 1 THEN parts[1]
    ELSE parts[1] \o sep \o Join(Tail(parts), sep)

\* f"| {' | '.join(cells)} |"
PipeRow(cells) == <<"|", " ">> \o Join(cells, <<" ", "|", " ">>) \o <<" ", "|">>

\* the text of one entry of formatted
EntryText(e) ==
    IF e.kind = "item" THEN <<"-", " ">> \o e.lines[1][1]
    ELSE Join([k \in 1..Len(e.lines) |-> PipeRow(e.lines[k])], <<"\n">>)

\* '\n'.join(formatted)
FormattedText(entries) == Join([k \in 1..Len(entries) |-> EntryText(entries[k])], <<"\n">>)

format_answer(ad) == FormattedText(FormatFrom(ad, 0))

---------------------------------------------------------------------------
(* Bounds and the input values the specifications draw from *)

\* rows of a sheet
MaxRows == 3

\* sheets of a workbook
MaxSheets == 2

\* cell groups of an accumulator after the first
MaxGroups == 3

\* tokens of a text given to the redaction pipeline
MaxTokens == 3

\* applications of the redaction pipeline to one text
MaxPasses == 2

\* cells of a row given to process_row
MaxCells == 3

SeqsUpTo(S, n) == UNION {[1..k -> S] : k \in 0..n}

Q_MinBalance == <<"W", "h", "a", "t", " ", "i", "s", " ", "t", "h", "e", " ", "m", "i", "n", "i", "m", "u", "m", " ", "b", "a", "l", "a", "n", "c", "e", "?">>

Q_Why == <<"W", "h", "y", "?">>

T_Tier == <<"T", "i", "e", "r">>

T_Amount == <<"A", "m", "o", "u", "n", "t">>

T_Gold == <<"G", "o", "l", "d">>

T_Silver == <<"S", "i", "l", "v", "e", "r">>

T_5000 == <<"5", "0", "0", "0">>

T_Main == <<"M", "a", "i", "n">>

T_WhyPadded == <<" ", "W", "h", "y", "?", " ">>

T_Island == <<"I", "s", "l", "a", "n", "d">>

T_WeExplain == <<"w", "e", " ", "e", "x", "p", "l", "a", "i", "n">>

\* cell groups a non-question row leaves in the accumulator: no missing cell,
\* not empty; they clean to 2, 2, 0 and 3 cells
Groups == {
    <<StrCell(T_Tier), StrCell(T_Amount)>>,
    <<StrCell(T_Main), StrCell(T_Silver), FloatCell(5)>>,
    <<StrCell(T_Main)>>,
    <<StrCell(T_Silver), IntCell(12), StrCell(T_Gold)>>}

\* cell groups a question row leaves in the accumulator: any cells, also none
FirstGroups == {<<NaNCell>>, <<>>, <<StrCell(T_Gold), StrCell(T_5000)>>, <<StrCell(T_Silver)>>}

\* the accumulators format_answer is called with
Accumulators == {<<f>> \o g : f \in FirstGroups, g \in SeqsUpTo(Groups, MaxGroups)}

---------------------------------------------------------------------------
(* format_answer as a state machine: one action per kind of iteration of   *)
(* the outer while loop                                                    *)

InitFormat ==
    /\ answer_data \in Accumulators
    /\ i = 0
    /\ formatted = <<>>
    /\ fpc = "loop"
    /\ workbook = <<>> /\ sheet_idx = 0 /\ row_idx = 0 /\ current_q = <<>>
    /\ current_a = <<>> /\ markdown = <<>> /\ output = <<>> /\ pc = "done"
    /\ row_in = <<>> /\ row_out = <<>>
    /\ rtext = <<>> /\ rpass = 0

\* the loop condition holds: an iteration of the outer while is possible
LoopEnabled == fpc = "loop" /\ i < Len(answer_data)

\* the locals i and formatted of the running call
FormatLocals == [kind |-> "loop", i |-> i, formatted |-> formatted]

\* one iteration of the outer while that takes the branch kind
FormatIterate(kind) ==
    /\ \E st \in {FormatStep(answer_data, FormatLocals)} :
           /\ st.kind = kind
           /\ i' = st.i
           /\ formatted' = st.formatted
    /\ UNCHANGED <<answer_data, fpc>>
    /\ UNCHANGED <<mainVars, rowVars, redactVars>>

\* the row at the cursor is empty after cleaning
FormatSkip == LoopEnabled /\ FormatIterate("skip")

\* the row at the cursor and the rows after it form a table
FormatTable == LoopEnabled /\ FormatIterate("table")

\* the row at the cursor becomes list items
FormatList == LoopEnabled /\ FormatIterate("list")

\* the loop condition fails: return '\n'.join(formatted)
FormatReturn ==
    /\ fpc = "loop"
    /\ i >= Len(answer_data)
    /\ fpc' = "done"
    /\ UNCHANGED <<answer_data, i, formatted>>
    /\ UNCHANGED <<mainVars, rowVars, redactVars>>

NextFormat == FormatSkip \/ FormatTable \/ FormatList \/ FormatReturn

SpecFormat == InitFormat /\ [][NextFormat]_vars

\* The function runs to its end without being suspended: weak fairness of
\* the return and of the loop iterations.  An iteration is enabled exactly
\* when LoopEnabled holds (FormatStep is defined for every cursor inside the
\* accumulator and moves it), so WF_vars(FormatSkip \/ FormatTable \/
\* FormatList) is written out with LoopEnabled in place of ENABLED.
SpecFormatFair ==
    /\ SpecFormat
    /\ WF_vars(FormatReturn)
    /\ ([]<>~LoopEnabled \/ []<><<FormatSkip \/ FormatTable \/ FormatList>>_vars)

---------------------------------------------------------------------------
(* process_sheet and the main loop *)

excel_file == "NUST Bank-Product-Knowledge.xlsx"

\* the sheet names the main loop skips
ExcludedSheets == {"Sheet3", "Sheet1", "Main"}

\* create_block: the front matter fields and the answer body of the template
create_block(sheet, q, a, src) == [sheet_name |-> sheet, question |-> q, answer |-> a, source |-> src]

\* cleaned = [cell for cell in row if not pd.isnull(cell)]
NonNull(row) == SelectSeq(row, LAMBDA cell : ~IsNull(cell))

\* SheetStep with a new question appending to the accumulator instead of replacing it
SheetStepKeepAccumulator(sheet_name, st, row) ==
    LET r == process_row(row)
    IN  IF Truthy(r.q)
        THEN [markdown  |-> IF Truthy(st.current_q)
                            THEN Append(st.markdown,
                                        create_block(sheet_name, st.current_q[1],
                                                     format_answer(st.current_a), excel_file))
                            ELSE st.markdown,
              current_q |-> r.q,
              current_a |-> Append(st.current_a, r.a)]
        ELSE [markdown  |-> st.markdown,
              current_q |-> st.current_q,
              current_a |-> IF NonNull(row) # <<>> THEN Append(st.current_a, NonNull(row))
                            ELSE st.current_a]

\* the body of the for loop over df.iterrows(), on the locals st = [markdown, current_q, current_a]
SheetStep(sheet_name, st, row) ==
    LET r == process_row(row)
    IN  IF Truthy(r.q)
        THEN [markdown  |-> IF Truthy(st.current_q)
                            THEN Append(st.markdown,
                                        create_block(sheet_name, st.current_q[1],
                                                     format_answer(st.current_a), excel_file))
                            ELSE st.markdown,
              current_q |-> r.q,
              current_a |-> <<r.a>>]
        ELSE [markdown  |-> st.markdown,
              current_q |-> st.current_q,
              current_a |-> IF NonNull(row) # <<>> THEN Append(st.current_a, NonNull(row))
                            ELSE st.current_a]

\* SheetFlush without the block closed after the loop
SheetFlushNothing(sheet_name, st) == st.markdown

\* the block closed after the loop, if a question is open
SheetFlush(sheet_name, st) ==
    IF Truthy(st.current_q)
    THEN Append(st.markdown,
                create_block(sheet_name, st.current_q[1], format_answer(st.current_a), excel_file))
    ELSE st.markdown

RECURSIVE SheetLoop(_, _, _, _)
SheetLoop(sheet_name, st, rows, k) ==
    IF k > Len(rows) THEN st ELSE SheetLoop(sheet_name, SheetStep(sheet_name, st, rows[k]), rows, k + 1)

\* process_sheet: the blocks joined into the returned content
process_sheet(sheet_name, rows) ==
    SheetFlush(sheet_name,
               SheetLoop(sheet_name, [markdown |-> <<>>, current_q |-> <<>>, current_a |-> <<>>], rows, 1))

Locals == [markdown |-> markdown, current_q |-> current_q, current_a |-> current_a]

CurrentSheet == workbook[sheet_idx + 1]

\* the main loop reaches an excluded sheet: continue
SkipSheet ==
    /\ pc = "main"
    /\ sheet_idx < Len(workbook)
    /\ CurrentSheet.name \in ExcludedSheets
    /\ sheet_idx' = sheet_idx + 1
    /\ UNCHANGED <<workbook, row_idx, current_q, current_a, markdown, output, pc>>
    /\ UNCHANGED <<formatVars, rowVars, redactVars>>

\* EnterSheet with current_q and current_a kept from the sheet before, as
\* module-level variables would be
EnterSheetKeepLocals ==
    /\ pc = "main"
    /\ sheet_idx < Len(workbook)
    /\ CurrentSheet.name \notin ExcludedSheets
    /\ pc' = "sheet"
    /\ row_idx' = 0
    /\ markdown' = <<>>
    /\ UNCHANGED <<workbook, sheet_idx, output, current_q, current_a>>
    /\ UNCHANGED <<formatVars, rowVars, redactVars>>

\* the main loop calls process_sheet: the locals are initialised
EnterSheet ==
    /\ pc = "main"
    /\ sheet_idx < Len(workbook)
    /\ CurrentSheet.name \notin ExcludedSheets
    /\ pc' = "sheet"
    /\ row_idx' = 0
    /\ markdown' = <<>>
    /\ current_q' = <<>>
    /\ current_a' = <<>>
    /\ UNCHANGED <<workbook, sheet_idx, output>>
    /\ UNCHANGED <<formatVars, rowVars, redactVars>>

\* one iteration of the loop over the rows, on the row at row_idx
SheetIterate ==
    /\ pc = "sheet"
    /\ row_idx < Len(CurrentSheet.rows)
    /\ \E st \in {SheetStep(CurrentSheet.name, Locals, CurrentSheet.rows[row_idx + 1])} :
           /\ markdown' = st.markdown
           /\ current_q' = st.current_q
           /\ current_a' = st.current_a
    /\ row_idx' = row_idx + 1
    /\ UNCHANGED <<workbook, sheet_idx, output, pc>>
    /\ UNCHANGED <<formatVars, rowVars, redactVars>>

\* the row holds a question
RowQuestion ==
    /\ pc = "sheet"
    /\ row_idx < Len(CurrentSheet.rows)
    /\ Truthy(process_row(CurrentSheet.rows[row_idx + 1]).q)
    /\ SheetIterate

\* the row holds no question
RowAnswer ==
    /\ pc = "sheet"
    /\ row_idx < Len(CurrentSheet.rows)
    /\ ~Truthy(process_row(CurrentSheet.rows[row_idx + 1]).q)
    /\ SheetIterate

\* the rows are exhausted: the open block is closed, process_sheet returns
\* and the main loop writes the content if there is any
ReturnSheet ==
    /\ pc = "sheet"
    /\ row_idx >= Len(CurrentSheet.rows)
    /\ markdown' = SheetFlush(CurrentSheet.name, Locals)
    /\ output' = output \o markdown'
    /\ sheet_idx' = sheet_idx + 1
    /\ pc' = "main"
    /\ UNCHANGED <<workbook, row_idx, current_q, current_a>>
    /\ UNCHANGED <<formatVars, rowVars, redactVars>>

\* the main loop is exhausted: the output file is closed
Finish ==
    /\ pc = "main"
    /\ sheet_idx >= Len(workbook)
    /\ pc' = "done"
    /\ UNCHANGED <<workbook, sheet_idx, row_idx, current_q, current_a, markdown, output>>
    /\ UNCHANGED <<formatVars, rowVars, redactVars>>

Next == SkipSheet \/ EnterSheet \/ RowQuestion \/ RowAnswer \/ ReturnSheet \/ Finish

\* the rows of the sheets, every row two cells wide
RowSet == {
    <<StrCell(Q_MinBalance), NaNCell>>,
    <<StrCell(T_Tier), StrCell(T_Amount)>>,
    <<StrCell(T_Gold), StrCell(T_5000)>>,
    <<NaNCell, NaNCell>>,
    <<StrCell(T_Main), NaNCell>>,
    <<NaNCell, StrCell(Q_Why)>>,
    <<StrCell(Q_Why), FloatCell(50)>>}

SheetNames == {"Main", "Sheet1", "Sheet3", "Products", "Rates"}

SampleSheets == {
    <<<<StrCell(Q_MinBalance), NaNCell>>, <<StrCell(T_Tier), StrCell(T_Amount)>>,
      <<StrCell(T_Gold), StrCell(T_5000)>>>>,
    <<<<StrCell(T_Gold), StrCell(T_5000)>>, <<StrCell(Q_Why), FloatCell(50)>>>>,
    <<<<StrCell(T_Tier), StrCell(T_Amount)>>>>}

DistinctNames(w) == \A j, k \in 1..Len(w) : j # k => w[j].name # w[k].name

\* one sheet of any rows, or several sheets of sample rows under distinct names
Workbooks ==
    {<<[name |-> "Products", rows |-> r]>> : r \in SeqsUpTo(RowSet, MaxRows)}
    \cup {w \in SeqsUpTo([name : SheetNames, rows : SampleSheets], MaxSheets) : DistinctNames(w)}

Init ==
    /\ workbook \in Workbooks
    /\ sheet_idx = 0
    /\ row_idx = 0
    /\ current_q = <<>>
    /\ current_a = <<>>
    /\ markdown = <<>>
    /\ output = <<>>
    /\ pc = "main"
    /\ answer_data = <<>> /\ i = 0 /\ formatted = <<>> /\ fpc = "done"
    /\ row_in = <<>> /\ row_out = <<>>
    /\ rtext = <<>> /\ rpass = 0

Spec == Init /\ [][Next]_vars

---------------------------------------------------------------------------
(* process_row as a specification of its own *)

CellSet == {NaNCell, StrCell(T_Main), StrCell(T_WhyPadded), StrCell(T_Tier), StrCell(T_Island),
            StrCell(T_WeExplain), FloatCell(50)}

InitRow ==
    /\ row_in \in SeqsUpTo(CellSet, MaxCells)
    /\ row_out = <<>>
    /\ workbook = <<>> /\ sheet_idx = 0 /\ row_idx = 0 /\ current_q = <<>>
    /\ current_a = <<>> /\ markdown = <<>> /\ output = <<>> /\ pc = "done"
    /\ answer_data = <<>> /\ i = 0 /\ formatted = <<>> /\ fpc = "done"
    /\ rtext = <<>> /\ rpass = 0

\* q, a = process_row(row)
ProcessRow ==
    /\ row_out = <<>>
    /\ row_out' = <<process_row(row_in)>>
    /\ UNCHANGED row_in
    /\ UNCHANGED <<mainVars, formatVars, redactVars>>

NextRow == ProcessRow

SpecRow == InitRow /\ [][NextRow]_vars

---------------------------------------------------------------------------
(* anonymize_financial_info as a specification of its own *)

Tokens == {
    <<"v", "i", "s", "a", " ">>,
    <<" ">>,
    <<"1", "2", "3", "4">>,
    <<"5">>,
    <<"%">>,
    <<".", "5", "0">>,
    <<"1", "2">>,
    <<"a", "b">>,
    <<"1", "2", "3", "4", "5", "6", "7", "8", "9">>,
    <<"a", "@", "b", ".", "i", "o">>}

RECURSIVE Concat(_)
Concat(parts) == IF parts = <<>> THEN <<>> ELSE Head(parts) \o Concat(Tail(parts))

Texts == {Concat(t) : t \in SeqsUpTo(Tokens, MaxTokens)}

InitRedact ==
    /\ rtext \in Texts
    /\ rpass = 0
    /\ workbook = <<>> /\ sheet_idx = 0 /\ row_idx = 0 /\ current_q = <<>>
    /\ current_a = <<>> /\ markdown = <<>> /\ output = <<>> /\ pc = "done"
    /\ answer_data = <<>> /\ i = 0 /\ formatted = <<>> /\ fpc = "done"
    /\ row_in = <<>> /\ row_out = <<>>

\* text = anonymize_financial_info(text)
Anonymize ==
    /\ rpass < MaxPasses
    /\ rtext' = anonymize_financial_info(rtext)
    /\ rpass' = rpass + 1
    /\ UNCHANGED <<mainVars, formatVars, rowVars>>

NextRedact == Anonymize

SpecRedact == InitRedact /\ [][NextRedact]_vars

---------------------------------------------------------------------------
(* Properties of process_sheet and of the main loop, under Spec *)

\* the sheet process_sheet is working on, or has just returned from
InSheet == pc = "sheet"

Returned == pc \in {"main", "done"} /\ sheet_idx >= 1 /\ workbook[sheet_idx].name \notin ExcludedSheets

\* the positions, among the first n rows, of the rows process_row finds a question in
QuestionRows(rows, n) ==
    SelectSeq([k \in 1..n |-> k], LAMBDA r : Truthy(process_row(rows[r]).q))

\* the cells of a row that are not missing
Present(row) == SelectSeq(row, LAMBDA c : c.t # "nan")

\* the cell groups of the rows first..last that have a cell present
GroupsOf(rows, first, last) ==
    SelectSeq([k \in 1..(last - first + 1) |-> Present(rows[first + k - 1])], LAMBDA g : g # <<>>)

\* the accumulator of the question in row q when the rows up to last belong to it
ExpectedAccumulator(rows, q, last) == <<process_row(rows[q]).a>> \o GroupsOf(rows, q + 1, last)

\* the last row of the k-th question among qr, in a sheet read up to row n
LastRowOf(qr, k, n) == IF k < Len(qr) THEN qr[k + 1] - 1 ELSE n

\* C1: every emitted block has a non-empty question and a non-empty
\* formatted answer; a question whose formatted answer is empty emits no block.
C1_BlocksNonEmpty ==
    /\ \A k \in 1..Len(markdown) : markdown[k].question # <<>> /\ markdown[k].answer # <<>>
    /\ \A k \in 1..Len(output) : output[k].question # <<>> /\ output[k].answer # <<>>

C5_Rows ==
    <<<<StrCell(Q_MinBalance), NaNCell>>, <<StrCell(T_Tier), StrCell(T_Amount)>>,
      <<StrCell(T_Gold), StrCell(T_5000)>>>>

C5_Answer ==
    <<"|", " ", "T", "i", "e", "r", " ", "|", " ", "A", "m", "o", "u", "n", "t", " ", "|", "\n", "|", " ", "-", "-", "-", " ", "|", " ", "-", "-", "-", " ", "|", "\n", "|", " ", "G", "o", "l", "d", " ", "|", " ", "5", "0", "0", "0", " ", "|">>

C5_Processed == Returned /\ workbook[sheet_idx].rows = C5_Rows

\* C5: processing the sheet ["What is the minimum balance?"], ["Tier",
\* "Amount"], ["Gold", "5000"] emits exactly one block; its question is the
\* first row's text and its answer is exactly the two-column pipe table with
\* header Tier | Amount, one separator row and the data row Gold | 5000,
\* the text 5000 unredacted, and no list line.
C5_MinBalanceScenario ==
    C5_Processed =>
        markdown = <<[sheet_name |-> workbook[sheet_idx].name,
                      question   |-> Q_MinBalance,
                      answer     |-> C5_Answer,
                      source     |-> excel_file]>>

C5_Witness == C5_Processed /\ Len(markdown) = 1 /\ pc = "done"

\* the document the main loop has written after the first n sheets
RECURSIVE ExpectedOutput(_, _)
ExpectedOutput(wb, n) ==
    IF n = 0 THEN <<>>
    ELSE ExpectedOutput(wb, n - 1)
         \o (IF wb[n].name \in {"Sheet3", "Sheet1", "Main"} THEN <<>>
             ELSE process_sheet(wb[n].name, wb[n].rows))

\* C7: the output is the concatenation, in workbook order, of the blocks of
\* exactly the sheets whose name is not Sheet3, Sheet1 or Main; no block of an
\* excluded sheet is written, and the blocks of a sheet are those of
\* processing its rows alone, whatever sheets came before it.
C7_OutputBySheet ==
    /\ output = ExpectedOutput(workbook, sheet_idx)
    /\ \A k \in 1..Len(output) : output[k].sheet_name \notin {"Sheet3", "Sheet1", "Main"}

C7_Witness ==
    /\ pc = "done"
    /\ Len(workbook) = 2
    /\ workbook[1].name \notin ExcludedSheets
    /\ workbook[2].name \notin ExcludedSheets
    /\ process_sheet(workbook[1].name, workbook[1].rows) # <<>>
    /\ Present(workbook[2].rows[1]) # <<>>
    /\ ~Truthy(process_row(workbook[2].rows[1]).q)
    /\ process_sheet(workbook[2].name, workbook[2].rows) # <<>>

\* the questions of the first n rows, in row order
QuestionsOf(rows, n) ==
    LET qr == QuestionRows(rows, n)
    IN  [k \in 1..Len(qr) |-> process_row(rows[qr[k]]).q[1]]

\* C8: process_sheet starts with no open question; a row with a question
\* closes the open block, if any, and opens one whose accumulator starts
\* with the row's trailing cells; the end of the sheet closes the open block.
\* So the closed blocks are, in order, those of the questions met so far
\* except the open one, one block per question, and none stays open at the end.
C8_StateMachine ==
    /\ InSheet =>
         LET rows == CurrentSheet.rows
             qr   == QuestionRows(rows, row_idx)
             qs   == QuestionsOf(rows, row_idx)
         IN  IF qs = <<>> THEN ~Truthy(current_q) /\ markdown = <<>>
             ELSE /\ current_q = <<qs[Len(qs)]>>
                  /\ current_a[1] = process_row(rows[qr[Len(qr)]]).a
                  /\ Len(markdown) = Len(qs) - 1
                  /\ \A k \in 1..Len(markdown) : markdown[k].question = qs[k]
    /\ Returned =>
         LET rows == workbook[sheet_idx].rows
             qs   == QuestionsOf(rows, Len(rows))
         IN  /\ Len(markdown) = Len(qs)
             /\ \A k \in 1..Len(markdown) : markdown[k].question = qs[k]

C8_Witness ==
    /\ Returned
    /\ Len(markdown) = 2
    /\ markdown[1].question # markdown[2].question
    /\ Len(workbook[sheet_idx].rows) = 3

\* C9: the accumulator formatted for a question holds the trailing cells of
\* the question's row, then the present cells of each row up to the next
\* question row or the end of the sheet, one group per row that has any, in
\* sheet order; rows before the first question are collected and dropped when
\* the first question resets the accumulator, so no block holds them.
C9_RowAttribution ==
    /\ InSheet =>
         LET rows == CurrentSheet.rows
             qr   == QuestionRows(rows, row_idx)
         IN  /\ Len(markdown) = IF qr = <<>> THEN 0 ELSE Len(qr) - 1
             /\ \A k \in 1..Len(markdown) :
                    markdown[k].answer =
                        format_answer(ExpectedAccumulator(rows, qr[k], LastRowOf(qr, k, row_idx)))
             /\ current_a = IF qr = <<>> THEN GroupsOf(rows, 1, row_idx)
                            ELSE ExpectedAccumulator(rows, qr[Len(qr)], row_idx)
    /\ Returned =>
         LET rows == workbook[sheet_idx].rows
             qr   == QuestionRows(rows, Len(rows))
         IN  /\ Len(markdown) = Len(qr)
             /\ \A k \in 1..Len(markdown) :
                    markdown[k].answer =
                        format_answer(ExpectedAccumulator(rows, qr[k], LastRowOf(qr, k, Len(rows))))

C9_Witness ==
    /\ Returned
    /\ Len(workbook[sheet_idx].rows) = 3
    /\ QuestionRows(workbook[sheet_idx].rows, 3) = <<2>>
    /\ Present(workbook[sheet_idx].rows[1]) # <<>>
    /\ Len(ExpectedAccumulator(workbook[sheet_idx].rows, 2, 3)) = 2
    /\ Len(markdown) = 1

---------------------------------------------------------------------------
(* Properties of process_row, under SpecRow *)

\* the cell passes the question detector
Qualifies(cell) == is_question(Strip(CellStr(cell)))

\* the positions of the first cell of the row that passes the detector
FirstQuestion(row) ==
    {k \in 1..Len(row) : Qualifies(row[k]) /\ \A j \in 1..(k - 1) : ~Qualifies(row[j])}

\* C2 as stated: process_row returns either a question with a non-empty
\* tail or no question with an empty tail, also when the first cell passing
\* is_question is the last cell of the row.
C2_QuestionHasTail ==
    row_out # <<>> =>
        \/ row_out[1].q # <<>> /\ row_out[1].a # <<>>
        \/ row_out[1].q = <<>> /\ row_out[1].a = <<>>

\* C2, amended: process_row returns either the non-empty text of the first
\* cell passing is_question with the cells strictly after it, which are none
\* when that cell is the last of the row, or no question with an empty tail.
C2_QuestionAndRest ==
    row_out # <<>> =>
        IF FirstQuestion(row_in) = {}
        THEN row_out[1].q = <<>> /\ row_out[1].a = <<>>
        ELSE \E k \in FirstQuestion(row_in) :
                /\ row_out[1].q = <<Strip(CellStr(row_in[k]))>>
                /\ row_out[1].q[1] # <<>>
                /\ row_out[1].a = [j \in 1..(Len(row_in) - k) |-> row_in[k + j]]
                /\ (k = Len(row_in) => row_out[1].a = <<>>)

C2_Witness ==
    /\ row_out # <<>>
    /\ Len(row_in) >= 2
    /\ FirstQuestion(row_in) = {Len(row_in)}
    /\ row_out[1].q # <<>>
    /\ row_out[1].a = <<>>

---------------------------------------------------------------------------
(* Properties of format_answer, under SpecFormat and SpecFormatFair *)

\* the rows of the accumulator, cleaned
Cleaned(ad) == [k \in 1..Len(ad) |-> CleanRow(ad[k])]

\* the first n rows of the accumulator, cleaned, without those cleaned to nothing
Rendering(ad, n) == SelectSeq(SubSeq(Cleaned(ad), 1, n), LAMBDA r : r # <<>>)

\* The roles of the rows read back from the entries: a table accounts for
\* its header row and its data rows, a run of Len(row) items for a list row.
\* "unrendered" marks rows and entries that do not match.
RECURSIVE RolesOf(_, _)
RolesOf(rows, entries) ==
    IF rows = <<>> THEN (IF entries = <<>> THEN <<>> ELSE <<"unrendered">>)
    ELSE IF entries = <<>> THEN <<"unrendered">>
    ELSE IF entries[1].kind = "table"
    THEN LET lines == entries[1].lines
             d == Len(lines) - 2
         IN  IF /\ d >= 1
                /\ Len(rows) >= d + 1
                /\ lines[1] = rows[1]
                /\ \A k \in 1..d : lines[k + 2] = rows[k + 1]
             THEN <<"header">> \o [k \in 1..d |-> "data"]
                  \o RolesOf(SubSeq(rows, d + 2, Len(rows)), Tail(entries))
             ELSE <<"unrendered">>
    ELSE LET n == Len(rows[1])
         IN  IF /\ Len(entries) >= n
                /\ \A c \in 1..n : entries[c].kind = "item" /\ entries[c].lines = <<<<rows[1][c]>>>>
             THEN <<"list">> \o RolesOf(Tail(rows), SubSeq(entries, n + 1, Len(entries)))
             ELSE <<"unrendered">>

\* the entries render exactly the rows, in order, each once
RendersExactly(rows, entries) ==
    LET roles == RolesOf(rows, entries)
    IN  Len(roles) = Len(rows) /\ \A k \in 1..Len(roles) : roles[k] # "unrendered"

\* the role of row j of the accumulator in the finished output
RoleOfRow(ad, entries, j) ==
    RolesOf(Rendering(ad, Len(ad)), entries)[Len(Rendering(ad, j))]

\* a table is a header, one separator of as many --- cells, then data rows of
\* the header's cell count
WellFormedTable(e) ==
    /\ Len(e.lines) >= 3
    /\ Len(e.lines[1]) >= 2
    /\ e.lines[2] = [k \in 1..Len(e.lines[1]) |-> <<"-", "-", "-">>]
    /\ \A k \in 3..Len(e.lines) : Len(e.lines[k]) = Len(e.lines[1])

\* the accumulator without the rows that are empty after cleaning
WithoutEmptyRows(ad) == SelectSeq(ad, LAMBDA g : CleanRow(g) # <<>>)

\* C3: a row that is empty after cleaning produces no output and does not
\* break a table: the result is the one the accumulator without such rows
\* gives, whether the row stands between data rows or after the header.
C3_EmptyRowsTransparent ==
    fpc = "done" => formatted = FormatFrom(WithoutEmptyRows(answer_data), 0)

\* C4: two adjacent rows that clean to the same cell count n >= 2 are both
\* rendered inside a pipe table, never as list lines; and every table is a
\* header row, exactly one separator row with one --- per header cell, and
\* one or more data rows of the header's cell count.
C4_TablesForEqualRows ==
    /\ \A k \in 1..Len(formatted) : formatted[k].kind = "table" => WellFormedTable(formatted[k])
    /\ fpc = "done" =>
         /\ RendersExactly(Rendering(answer_data, Len(answer_data)), formatted)
         /\ \A j \in 1..(Len(answer_data) - 1) :
              LET a == CleanRow(answer_data[j])
                  b == CleanRow(answer_data[j + 1])
              IN  Len(a) >= 2 /\ Len(b) = Len(a) =>
                      /\ RoleOfRow(answer_data, formatted, j) \in {"header", "data"}
                      /\ RoleOfRow(answer_data, formatted, j + 1) = "data"

C4_Witness ==
    /\ fpc = "done"
    /\ \E k \in 1..Len(formatted) : formatted[k].kind = "table" /\ Len(formatted[k].lines) = 4
    /\ \E k \in 1..Len(formatted) : formatted[k].kind = "item"

\* the cursor and the output after an iteration of the outer loop
C10_Iteration ==
    fpc' = "loop" =>
        /\ i' > i
        /\ i' <= Len(answer_data)
        /\ IF Len(formatted') = Len(formatted) + 1 /\ formatted'[Len(formatted')].kind = "table"
           THEN i' >= i + 2 /\ i' - i = Len(formatted'[Len(formatted')].lines) - 1
           ELSE i' = i + 1
        /\ SubSeq(formatted', 1, Len(formatted)) = formatted

\* C10: every iteration of the outer loop moves the cursor forward, by 1 for
\* a skipped or listed row and by the header and data rows of a table, never
\* past the end; the entries built so far render exactly the non-empty
\* cleaned rows before the cursor, in order and once each, so a row that ends
\* a table is left to the next iteration; and the function returns.
C10_Progress ==
    /\ [](i <= Len(answer_data) /\ RendersExactly(Rendering(answer_data, i), formatted))
    /\ [][C10_Iteration]_vars
    /\ <>(fpc = "done" /\ i = Len(answer_data))

C10_Witness ==
    /\ fpc = "done"
    /\ Len(answer_data) = 4
    /\ Len(formatted) >= 2
    /\ formatted[1].kind = "table"
    /\ formatted[2].kind = "item"
    /\ Len(Rendering(answer_data, 4)) = 3

---------------------------------------------------------------------------
(* Properties of anonymize_financial_info, under SpecRedact *)

\* C6: the pipeline is idempotent: a text that went through it is left
\* unchanged by going through it again.
C6_Idempotent == rpass >= 1 => anonymize_financial_info(rtext) = rtext

=============================================================================
